---- MODULE Spec2Model ----
(***************************************************************************)
(* Model of the analytics handlers of app.py (Flask + MySQL).              *)
(*                                                                         *)
(* Every handler is synchronous and request scoped, so one action models   *)
(* one whole request: argument parsing, connection, queries, computation,  *)
(* close and the returned value.  The data source is external: what it     *)
(* holds during a request is an input of the request.                      *)
(*                                                                         *)
(* Numbers: amounts are integers; every float quotient of the code is kept *)
(* as an exact fraction [num, den] and compared by cross multiplication.   *)
(* Time: datetimes are integer ticks, TicksPerDay ticks to the day.        *)
(***************************************************************************)
EXTENDS Integers, Sequences, FiniteSets, TLC

VARIABLES phase, handler, args, db, ret, conn, attempts, queries, locals

vars == <<phase, handler, args, db, ret, conn, attempts, queries, locals>>

(***************************************************************************)
(* Bounds of the model.                                                    *)
(***************************************************************************)
\* resolution of a datetime: ticks per calendar day
TicksPerDay == 2
\* the value datetime.now() returns during the request, in ticks
Now == 9
\* the largest number of orders the table pesanan holds during a request
MaxOrders == 2
\* the largest number of rows an aggregated (GROUP BY) result holds
MaxRows == 1

(***************************************************************************)
(* Python and SQL values.                                                  *)
(***************************************************************************)
\* Python None / SQL NULL; a present number v is <<v>>
None == <<>>

Some(v) == <<v>>

\* `x or 0` on a nullable number
OrZero(x) == IF x = None THEN 0 ELSE x[1]

\* a request argument: missing, an integer literal, or text that is no integer
Absent == [kind |-> "absent"]

IntArg(v) == [kind |-> "int", v |-> v]

TextArg == [kind |-> "text"]

\* int(request.args.get(name, default)) raises ValueError on text
ArgParses(a) == a.kind # "text"

ArgInt(a, default) == IF a.kind = "absent" THEN default ELSE a.v

\* an exact quotient standing for the float the code computes
Rat(n, d) == [num |-> n, den |-> d]

ZeroDivisionError == [exc |-> "ZeroDivisionError"]

IsExc(x) == "exc" \in DOMAIN x

\* Python's a / b
Div(a, b) == IF b = 0 THEN ZeroDivisionError ELSE Rat(a, b)

Abs(n) == IF n < 0 THEN -n ELSE n

\* round(q, digits) with 10^digits = scale, as an integer count of 1/scale
\* (round half to even), for q = num/den with den > 0
RoundPos(num, den, scale) ==
  LET q == (num * scale) \div den
      r == (num * scale) % den
  IN  IF 2 * r > den THEN q + 1
      ELSE IF 2 * r = den THEN q + (q % 2)
      ELSE q

Round(q, scale) ==
  IF q.num < 0 THEN -RoundPos(-q.num, q.den, scale)
  ELSE RoundPos(q.num, q.den, scale)

\* timedelta(days=d)
Timedelta(d) == d * TicksPerDay

\* DATE(created_at) and strftime('%Y-%m-%d'): the calendar day of a tick
DateOf(t) == t \div TicksPerDay

(***************************************************************************)
(* The table pesanan and the status filter every query applies.            *)
(***************************************************************************)
CountedStatuses == {"selesai", "siap_diambil", "dikonfirmasi", "diproses"}

Counted(o) == o.status_pesanan \in CountedStatuses

RECURSIVE SumNonNull(_)
SumNonNull(S) ==
  IF S = {} THEN 0
  ELSE LET o == CHOOSE x \in S : TRUE
       IN  OrZero(o.total_pesanan) + SumNonNull(S \ {o})

\* SQL SUM(total_pesanan): NULLs are skipped, no non-NULL row gives NULL
SqlSum(S) ==
  IF \A o \in S : o.total_pesanan = None THEN None ELSE Some(SumNonNull(S))

\* SQL COALESCE(x, 0)
Coalesce0(x) == IF x = None THEN Some(0) ELSE x

\* SQL `t BETWEEN a AND b` (both ends included)
Between(t, a, b) == a <= t /\ t <= b

(***************************************************************************)
(* What a handler run leaves behind.                                       *)
(***************************************************************************)
\* return jsonify({...}): a bare Response, HTTP 200
Ok(body, lcl, q) ==
  [ret |-> [tuple |-> FALSE, status |-> 200, body |-> body],
   conn |-> "closed", attempts |-> 1, queries |-> q, locals |-> lcl]

\* a handler that asks get_db_connection a second time before giving up
ConnectionRetried ==
  [ret |-> [tuple |-> TRUE, status |-> 500,
            body |-> [success |-> FALSE, message |-> "Database connection failed",
                      error |-> ""]],
   conn |-> "none", attempts |-> 2, queries |-> 0, locals |-> [fetched |-> FALSE]]

\* `conn = get_db_connection()` returned None:
\* `if not conn: return jsonify({...}), 500`
ConnectionFailed ==
  [ret |-> [tuple |-> TRUE, status |-> 500,
            body |-> [success |-> FALSE, message |-> "Database connection failed",
                      error |-> ""]],
   conn |-> "none", attempts |-> 1, queries |-> 0, locals |-> [fetched |-> FALSE]]

\* `except Exception as e: return jsonify({...}), 500`; the handler's except
\* clause closes nothing, so a connection that was open stays open
Caught(message, exc, connState, att, q) ==
  [ret |-> [tuple |-> TRUE, status |-> 500,
            body |-> [success |-> FALSE, message |-> message, error |-> exc]],
   conn |-> connState, attempts |-> att, queries |-> q,
   locals |-> [fetched |-> FALSE]]

(***************************************************************************)
(* sales_trend                                                             *)
(***************************************************************************)
\* request.args.get('days', 30)
DefaultTrendDays == 30

\* the significance thresholds of the rule-based analysis, in percent
SignificantChange == 20

ModerateChange == 10

TrendMessage == "Gagal mengambil analisis trend"

\* the two periods: [now - days, now] and [now - 2*days, now - days - 1 day]
TrendPeriods(days) ==
  LET end_date == Now
      start_date == end_date - Timedelta(days)
  IN  [start_date |-> start_date,
       end_date |-> end_date,
       previous_start_date |-> start_date - Timedelta(days),
       previous_end_date |-> start_date - Timedelta(1)]

\* query_current run with the bounds (a, b), then `fetchone()['total'] or 0`
QueryCurrent(pesanan, a, b) ==
  OrZero(Coalesce0(SqlSum({o \in pesanan :
                             Counted(o) /\ Between(o.created_at, a, b)})))

\* PercentageChange without its guard on previous_sales
PercentageChangeUnguarded(current_sales, previous_sales) ==
  Div((current_sales - previous_sales) * 100, previous_sales)

\* (difference / previous_sales * 100) if previous_sales > 0 else 0
PercentageChange(current_sales, previous_sales) ==
  IF previous_sales > 0
  THEN Div((current_sales - previous_sales) * 100, previous_sales)
  ELSE Rat(0, 1)

\* abs(percentage_change) > bound, for den > 0
AbsAbove(pc, bound) == Abs(pc.num) > bound * pc.den

\* abs(percentage_change) >= bound, for den > 0
AbsAtLeast(pc, bound) == Abs(pc.num) >= bound * pc.den

\* TrendOf with >= in place of > at both thresholds
TrendOfInclusive(pc) ==
  IF AbsAtLeast(pc, SignificantChange)
  THEN (IF pc.num > 0 THEN "naik_signifikan" ELSE "turun_signifikan")
  ELSE IF AbsAtLeast(pc, ModerateChange)
  THEN (IF pc.num > 0 THEN "naik" ELSE "turun")
  ELSE "stabil"

TrendOf(pc) ==
  IF AbsAbove(pc, SignificantChange)
  THEN (IF pc.num > 0 THEN "naik_signifikan" ELSE "turun_signifikan")
  ELSE IF AbsAbove(pc, ModerateChange)
  THEN (IF pc.num > 0 THEN "naik" ELSE "turun")
  ELSE "stabil"

TrendConfidence(pc) ==
  IF AbsAbove(pc, SignificantChange) THEN "high" ELSE "medium"

TrendRecommendation(trend) ==
  IF trend = "naik_signifikan"
  THEN "Penjualan meningkat signifikan. Pertimbangkan untuk meningkatkan stok dan promosi."
  ELSE IF trend = "turun_signifikan"
  THEN "Penjualan menurun signifikan. Evaluasi strategi pemasaran dan cek kompetitor."
  ELSE IF trend = "naik"
  THEN "Penjualan menunjukkan tren positif. Pertahankan strategi yang ada."
  ELSE IF trend = "turun"
  THEN "Penjualan sedikit menurun. Monitor lebih lanjut dan pertimbangkan promosi."
  ELSE "Penjualan stabil. Pertahankan performa yang ada."

\* the body of the handler after both queries returned
TrendResult(days, p, current_sales, previous_sales) ==
  LET pc == PercentageChange(current_sales, previous_sales)
  IN  IF IsExc(pc) THEN Caught(TrendMessage, pc.exc, "open", 1, 2)
      ELSE Ok([success |-> TRUE,
               message |-> "Analisis trend penjualan berhasil diambil",
               data |-> [trend |-> TrendOf(pc),
                         current_period |-> [start |-> DateOf(p.start_date),
                                             end |-> DateOf(p.end_date),
                                             total |-> current_sales],
                         previous_period |-> [start |-> DateOf(p.previous_start_date),
                                              end |-> DateOf(p.previous_end_date),
                                              total |-> previous_sales],
                         difference |-> current_sales - previous_sales,
                         percentage_change |-> Round(pc, 100),
                         confidence |-> TrendConfidence(pc),
                         recommendation |-> TrendRecommendation(TrendOf(pc))]],
              [fetched |-> TRUE, days |-> days, periods |-> p,
               percentage_change |-> pc],
              2)

SalesTrend(a, d) ==
  IF ~ArgParses(a.days) THEN Caught(TrendMessage, "ValueError", "none", 0, 0)
  ELSE IF ~d.connect THEN ConnectionFailed
  ELSE IF d.failAt \in {1, 2} THEN Caught(TrendMessage, "Error", "open", 1, d.failAt)
  ELSE LET days == ArgInt(a.days, DefaultTrendDays)
           p == TrendPeriods(days)
       IN  TrendResult(days, p,
                       QueryCurrent(d.pesanan, p.start_date, p.end_date),
                       QueryCurrent(d.pesanan, p.previous_start_date,
                                    p.previous_end_date))

(***************************************************************************)
(* sales_prediction                                                        *)
(***************************************************************************)
\* request.args.get('days_ahead', 7)
DefaultDaysAhead == 7

\* request.args.get('lookback_days', 30)
DefaultLookbackDays == 30

\* the confidence thresholds on the coefficient of variation, in percent
HighConfidenceBelow == 20

LowConfidenceAbove == 50

PredictionMessage == "Gagal mengambil prediksi"

\* a JSON string value, kept apart from a JSON number
Str(s) == [str |-> s]

RECURSIVE DailyRows(_, _)
\* GROUP BY DATE(created_at) ORDER BY date ASC over the selected orders
DailyRows(sel, dates) ==
  IF dates = {} THEN <<>>
  ELSE LET first == CHOOSE x \in dates : \A y \in dates : x <= y
       IN  <<[date |-> first,
              total |-> SqlSum({o \in sel : DateOf(o.created_at) = first})]>>
             \o DailyRows(sel, dates \ {first})

\* the daily sales query: counted orders with created_at >= start_date
DailySales(pesanan, start_date) ==
  LET sel == {o \in pesanan : Counted(o) /\ o.created_at >= start_date}
  IN  DailyRows(sel, {DateOf(o.created_at) : o \in sel})

RECURSIVE SumTotals(_)
\* sum(float(day['total'] or 0) for day in daily_sales)
SumTotals(rows) ==
  IF rows = <<>> THEN 0 ELSE OrZero(Head(rows).total) + SumTotals(Tail(rows))

RECURSIVE SumSquaredDeviations(_, _)
\* sum((float(day['total'] or 0) - average_daily) ** 2 ...), as a count of
\* 1 / average_daily.den^2
SumSquaredDeviations(rows, avg) ==
  IF rows = <<>> THEN 0
  ELSE LET dev == OrZero(Head(rows).total) * avg.den - avg.num
       IN  dev * dev + SumSquaredDeviations(Tail(rows), avg)

\* total_sales / total_days if total_days > 0 else 0
AverageDaily(total_sales, total_days) ==
  IF total_days > 0 THEN Div(total_sales, total_days) ELSE Rat(0, 1)

\* sum(...) / total_days
Variance(rows, avg, total_days) ==
  Div(SumSquaredDeviations(rows, avg), avg.den * avg.den * total_days)

\* (std_dev / average_daily * 100) if average_daily > 0 else 0.  std_dev is
\* the square root of the variance, so the coefficient is carried as its
\* exact square: variance * 100^2 / average_daily^2
CoefficientOfVariationSquared(variance, avg) ==
  IF avg.num > 0
  THEN Div(variance.num * avg.den * avg.den * 10000,
           variance.den * avg.num * avg.num)
  ELSE Rat(0, 1)

\* ConfidenceOf with <= in place of < at the 'high' threshold
ConfidenceOfInclusive(cv2) ==
  IF cv2.num <= HighConfidenceBelow * HighConfidenceBelow * cv2.den THEN "high"
  ELSE IF cv2.num > LowConfidenceAbove * LowConfidenceAbove * cv2.den THEN "low"
  ELSE "medium"

\* coefficient_of_variation < 20 -> high, > 50 -> low, else medium; the
\* coefficient is never negative, so the squares compare as the values do
ConfidenceOf(cv2) ==
  IF cv2.num < HighConfidenceBelow * HighConfidenceBelow * cv2.den THEN "high"
  ELSE IF cv2.num > LowConfidenceAbove * LowConfidenceAbove * cv2.den THEN "low"
  ELSE "medium"

PredictionLocals(days_ahead, lookback_days, daily_sales) ==
  [fetched |-> TRUE, days_ahead |-> days_ahead, lookback_days |-> lookback_days,
   daily_sales |-> daily_sales]

\* the moving-average branch of the handler
MovingAverage(days_ahead, lookback_days, daily_sales) ==
  LET total_sales == SumTotals(daily_sales)
      total_days == Len(daily_sales)
      average_daily == AverageDaily(total_sales, total_days)
      variance == Variance(daily_sales, average_daily, total_days)
      cv2 == CoefficientOfVariationSquared(variance, average_daily)
  IN  IF IsExc(average_daily)
      THEN Caught(PredictionMessage, average_daily.exc, "open", 1, 1)
      ELSE IF IsExc(variance)
      THEN Caught(PredictionMessage, variance.exc, "open", 1, 1)
      ELSE IF IsExc(cv2)
      THEN Caught(PredictionMessage, cv2.exc, "open", 1, 1)
      ELSE Ok([success |-> TRUE,
               message |-> "Prediksi penjualan berhasil diambil",
               data |-> [prediction |->
                           Round(Rat(average_daily.num * days_ahead,
                                     average_daily.den), 100),
                         average_daily |-> Round(average_daily, 100),
                         days_ahead |-> days_ahead,
                         confidence |-> Str(ConfidenceOf(cv2)),
                         coefficient_of_variation_squared |-> cv2,
                         method |-> "moving_average",
                         data_points |-> total_days]],
              PredictionLocals(days_ahead, lookback_days, daily_sales),
              1)

\* PredictionResult without the `if not daily_sales` branch
PredictionResultUnguarded(days_ahead, lookback_days, daily_sales) ==
  MovingAverage(days_ahead, lookback_days, daily_sales)

\* the body of the handler after the query returned
PredictionResult(days_ahead, lookback_days, daily_sales) ==
  IF daily_sales = <<>>
  THEN Ok([success |-> TRUE,
           message |-> "Prediksi penjualan berhasil diambil",
           data |-> [prediction |-> 0,
                     confidence |-> Str("low"),
                     method |-> "insufficient_data"]],
          PredictionLocals(days_ahead, lookback_days, daily_sales),
          1)
  ELSE MovingAverage(days_ahead, lookback_days, daily_sales)

SalesPrediction(a, d) ==
  IF ~ArgParses(a.days_ahead) \/ ~ArgParses(a.lookback_days)
  THEN Caught(PredictionMessage, "ValueError", "none", 0, 0)
  ELSE IF ~d.connect THEN ConnectionFailed
  ELSE IF d.failAt = 1 THEN Caught(PredictionMessage, "Error", "open", 1, 1)
  ELSE LET days_ahead == ArgInt(a.days_ahead, DefaultDaysAhead)
           lookback_days == ArgInt(a.lookback_days, DefaultLookbackDays)
           start_date == Now - Timedelta(lookback_days)
       IN  PredictionResult(days_ahead, lookback_days,
                            DailySales(d.pesanan, start_date))

(***************************************************************************)
(* customer_analysis                                                       *)
(***************************************************************************)
\* request.args.get('limit', 10)
DefaultLimit == 10

\* days = 90, the lookback of the customer query
CustomerDays == 90

\* the segmentation thresholds: average order value and orders per month
VipValue == 500000

VipFrequency == 4

PremiumValue == 300000

PremiumFrequency == 2

CustomerMessage == "Gagal mengambil analisis pelanggan"

\* q > k for a quotient q with den > 0
Above(q, k) == q.num > k * q.den

\* q < k for a quotient q with den > 0
Below(q, k) == q.num < k * q.den

\* float(total_pendapatan) / total_pesanan if total_pesanan > 0 else 0
AvgOrderValue(total_pendapatan, total_pesanan) ==
  IF total_pesanan > 0 THEN Div(total_pendapatan, total_pesanan) ELSE Rat(0, 1)

\* total_pesanan / (days / 30): orders per month
Frequency(total_pesanan) == Div(total_pesanan * 30, CustomerDays)

\* SegmentOf with `or` in place of `and` in the vip rule
SegmentOfEither(avg_order_value, frequency) ==
  IF Above(avg_order_value, VipValue) \/ Above(frequency, VipFrequency) THEN "vip"
  ELSE IF Above(avg_order_value, PremiumValue) \/ Above(frequency, PremiumFrequency)
  THEN "premium"
  ELSE "regular"

SegmentOf(avg_order_value, frequency) ==
  IF Above(avg_order_value, VipValue) /\ Above(frequency, VipFrequency) THEN "vip"
  ELSE IF Above(avg_order_value, PremiumValue) \/ Above(frequency, PremiumFrequency)
  THEN "premium"
  ELSE "regular"

CustomerRecommendation(segment, frequency) ==
  IF segment = "vip"
  THEN "Pelanggan VIP - Berikan layanan prioritas dan program loyalitas khusus."
  ELSE IF segment = "premium"
  THEN "Pelanggan Premium - Tawarkan diskon dan program loyalitas."
  ELSE IF Below(frequency, 1)
  THEN "Pelanggan jarang - Kirim promosi untuk meningkatkan frekuensi pembelian."
  ELSE "Pelanggan reguler - Pertahankan dengan layanan yang baik."

\* one pass of the loop body for a customer whose user row was found: the
\* entry appended to analysis, or the exception raised
CustomerEntry(customer, user) ==
  LET n == customer.total_pesanan
      \* float(None) raises TypeError; the guard reads total_pesanan first
      avg == IF n > 0 /\ customer.total_pendapatan = None
             THEN [exc |-> "TypeError"]
             ELSE AvgOrderValue(OrZero(customer.total_pendapatan), n)
      frequency == Frequency(n)
  IN  IF IsExc(avg) THEN avg
      ELSE IF IsExc(frequency) THEN frequency
      \* 'total_pendapatan': float(customer['total_pendapatan'])
      ELSE IF customer.total_pendapatan = None THEN [exc |-> "TypeError"]
      ELSE [user_id |-> customer.user_id,
            nama |-> user.name,
            email |-> user.email,
            total_pesanan |-> n,
            total_pendapatan |-> customer.total_pendapatan[1],
            rata_rata_transaksi |-> Round(avg, 100),
            frekuensi_per_bulan |-> Round(frequency, 100),
            segment |-> SegmentOf(avg, frequency),
            recommendation |->
              CustomerRecommendation(SegmentOf(avg, frequency), frequency)]

RECURSIVE CustomerLoop(_, _, _, _, _)
\* `for customer in customers`, from row i on, after q executes
CustomerLoop(d, i, q, analysis, limit) ==
  IF i > Len(d.customers)
  THEN Ok([success |-> TRUE,
           message |-> "Analisis pelanggan berhasil diambil",
           data |-> analysis],
          [fetched |-> TRUE, limit |-> limit], q)
  ELSE IF d.failAt = q + 1 THEN Caught(CustomerMessage, "Error", "open", 1, q + 1)
  ELSE LET customer == d.customers[i]
           user == d.users[i]
       IN  IF user = None THEN CustomerLoop(d, i + 1, q + 1, analysis, limit)
           ELSE LET entry == CustomerEntry(customer, user[1])
                IN  IF IsExc(entry)
                    THEN Caught(CustomerMessage, entry.exc, "open", 1, q + 1)
                    ELSE CustomerLoop(d, i + 1, q + 1,
                                      Append(analysis, entry), limit)

CustomerAnalysis(a, d) ==
  IF ~ArgParses(a.limit) THEN Caught(CustomerMessage, "ValueError", "none", 0, 0)
  ELSE IF ~d.connect THEN ConnectionFailed
  ELSE IF d.failAt = 1 THEN Caught(CustomerMessage, "Error", "open", 1, 1)
  ELSE CustomerLoop(d, 1, 1, <<>>, ArgInt(a.limit, DefaultLimit))

(***************************************************************************)
(* product_recommendations                                                 *)
(***************************************************************************)
\* days = 30, the lookback of the top-products query
ProductDays == 30

\* restock rules: days of stock left
UrgentBelow == 7

RestockBelow == 14

\* recommended_quantity covers this many days of sales
RestockDays == 14

ProductMessage == "Gagal mengambil rekomendasi"

\* float(item['total_terjual']) / days
AverageDailySales(total_terjual) == Div(total_terjual, ProductDays)

\* (total_stock / average_daily_sales) if average_daily_sales > 0 else 0
DaysUntilStockout(total_stock, average_daily_sales) ==
  IF average_daily_sales.num > 0
  THEN Div(total_stock * average_daily_sales.den, average_daily_sales.num)
  ELSE Rat(0, 1)

RestockAction(type, priority, days_until_stockout, average_daily_sales) ==
  [type |-> type, priority |-> priority,
   message |-> <<"Stok akan habis dalam ", Round(days_until_stockout, 10), " hari">>,
   recommended_quantity |->
     Round(Rat(average_daily_sales.num * RestockDays, average_daily_sales.den), 1)]

\* the three rules that fill recommendation['actions'], in order
ProductActions(item, produk, top, days_until_stockout, average_daily_sales) ==
  (IF Below(days_until_stockout, UrgentBelow) /\ Above(days_until_stockout, 0)
   THEN <<RestockAction("restock_urgent", "high", days_until_stockout,
                        average_daily_sales)>>
   ELSE IF Below(days_until_stockout, RestockBelow) /\ Above(days_until_stockout, 0)
   THEN <<RestockAction("restock", "medium", days_until_stockout,
                        average_daily_sales)>>
   ELSE <<>>)
  \o (IF ~produk.is_active /\ item.total_terjual[1] > 0
      THEN <<[type |-> "activate", priority |-> "medium",
              message |-> "Produk memiliki penjualan historis yang baik"]>>
      ELSE <<>>)
  \o (IF 2 * item.total_terjual[1] > top.total_terjual[1]
      THEN <<[type |-> "promote", priority |-> "low",
              message |-> "Produk terlaris, pertimbangkan untuk promosi"]>>
      ELSE <<>>)

\* one pass of the loop body for an item whose product row was found
ProductEntry(item, produk, top) ==
  IF item.total_terjual = None THEN [exc |-> "TypeError"]
  ELSE LET average_daily_sales == AverageDailySales(item.total_terjual[1])
           total_stock == OrZero(produk.stok_dus) + OrZero(produk.stok_pack)
                            + OrZero(produk.stok_satuan)
       IN  IF IsExc(average_daily_sales) THEN average_daily_sales
           ELSE LET days_until_stockout ==
                      DaysUntilStockout(total_stock, average_daily_sales)
                IN  IF IsExc(days_until_stockout) THEN days_until_stockout
                    \* 'total_pendapatan': float(item['total_pendapatan'])
                    ELSE IF item.total_pendapatan = None THEN [exc |-> "TypeError"]
                    \* float(top_products[0]['total_terjual'])
                    ELSE IF top.total_terjual = None THEN [exc |-> "TypeError"]
                    ELSE [produk_id |-> produk.id,
                          nama_produk |-> produk.nama_produk,
                          total_terjual |-> item.total_terjual[1],
                          total_pendapatan |-> item.total_pendapatan[1],
                          stok_dus |-> OrZero(produk.stok_dus),
                          stok_pack |-> OrZero(produk.stok_pack),
                          stok_satuan |-> OrZero(produk.stok_satuan),
                          days_until_stockout |-> Round(days_until_stockout, 10),
                          actions |-> ProductActions(item, produk, top,
                                                     days_until_stockout,
                                                     average_daily_sales)]

RECURSIVE ProductLoop(_, _, _, _, _)
\* `for item in top_products`, from row i on, after q executes
ProductLoop(d, i, q, recommendations, limit) ==
  IF i > Len(d.top_products)
  THEN Ok([success |-> TRUE,
           message |-> "Rekomendasi produk berhasil diambil",
           data |-> recommendations],
          [fetched |-> TRUE, limit |-> limit], q)
  ELSE IF d.failAt = q + 1 THEN Caught(ProductMessage, "Error", "open", 1, q + 1)
  ELSE LET item == d.top_products[i]
           produk == d.produk[i]
       IN  IF produk = None THEN ProductLoop(d, i + 1, q + 1, recommendations, limit)
           ELSE LET entry == ProductEntry(item, produk[1], d.top_products[1])
                IN  IF IsExc(entry)
                    THEN Caught(ProductMessage, entry.exc, "open", 1, q + 1)
                    ELSE ProductLoop(d, i + 1, q + 1,
                                     Append(recommendations, entry), limit)

ProductRecommendations(a, d) ==
  IF ~ArgParses(a.limit) THEN Caught(ProductMessage, "ValueError", "none", 0, 0)
  ELSE IF ~d.connect THEN ConnectionFailed
  ELSE IF d.failAt = 1 THEN Caught(ProductMessage, "Error", "open", 1, 1)
  ELSE ProductLoop(d, 1, 1, <<>>, ArgInt(a.limit, DefaultLimit))

(***************************************************************************)
(* time_analysis                                                           *)
(***************************************************************************)
TimeMessage == "Gagal mengambil analisis waktu"

\* f"{item['hour']}:00"
HourLabel(hour) == <<hour, ":00">>

RECURSIVE HourlyData(_)
\* the list comprehension over hourly_sales, as [list |-> ...]; float(None)
\* raises TypeError
HourlyData(rows) ==
  IF rows = <<>> THEN [list |-> <<>>]
  ELSE IF Head(rows).total_pendapatan = None THEN [exc |-> "TypeError"]
  ELSE LET rest == HourlyData(Tail(rows))
       IN  IF IsExc(rest) THEN rest
           ELSE [list |->
                 <<[hour |-> Head(rows).hour,
                     hour_label |-> HourLabel(Head(rows).hour),
                     jumlah_pesanan |-> Head(rows).jumlah_pesanan,
                     total_pendapatan |-> Head(rows).total_pendapatan[1]]>> \o rest.list]

RECURSIVE DailyData(_)
\* the list comprehension over daily_sales
DailyData(rows) ==
  IF rows = <<>> THEN [list |-> <<>>]
  ELSE IF Head(rows).total_pendapatan = None THEN [exc |-> "TypeError"]
  ELSE LET rest == DailyData(Tail(rows))
       IN  IF IsExc(rest) THEN rest
           ELSE [list |->
                 <<[day_of_week |-> Head(rows).day_of_week,
                     day_name |-> Head(rows).day_name,
                     jumlah_pesanan |-> Head(rows).jumlah_pesanan,
                     total_pendapatan |-> Head(rows).total_pendapatan[1]]>> \o rest.list]

\* best_hour, best_day and the recommendations built from them
TimeData(hourly_data, daily_data) ==
  [hourly |-> hourly_data,
   daily |-> daily_data,
   best_hour |-> IF hourly_data # <<>>
                 THEN Some([hour |-> hourly_data[1].hour,
                            hour_label |-> hourly_data[1].hour_label,
                            total_pendapatan |-> hourly_data[1].total_pendapatan])
                 ELSE None,
   best_day |-> IF daily_data # <<>>
                THEN Some([day_name |-> daily_data[1].day_name,
                           total_pendapatan |-> daily_data[1].total_pendapatan])
                ELSE None,
   recommendation |->
     (IF hourly_data # <<>>
      THEN <<<<"Jam terbaik untuk penjualan: ", hourly_data[1].hour_label,
               ". Pastikan staf dan stok siap pada jam ini.">>>>
      ELSE <<>>)
     \o (IF daily_data # <<>>
         THEN <<<<"Hari terbaik untuk penjualan: ", daily_data[1].day_name,
                  ". Rencanakan promosi atau event pada hari ini.">>>>
         ELSE <<>>)]

TimeAnalysis(d) ==
  IF ~d.connect THEN ConnectionFailed
  ELSE IF d.failAt \in {1, 2} THEN Caught(TimeMessage, "Error", "open", 1, d.failAt)
  ELSE LET hourly_data == HourlyData(d.hourly_sales)
           daily_data == DailyData(d.daily_sales)
       IN  IF IsExc(hourly_data)
           THEN Caught(TimeMessage, hourly_data.exc, "open", 1, 2)
           ELSE IF IsExc(daily_data)
           THEN Caught(TimeMessage, daily_data.exc, "open", 1, 2)
           ELSE Ok([success |-> TRUE,
                    message |-> "Analisis waktu penjualan berhasil diambil",
                    data |-> TimeData(hourly_data.list, daily_data.list)],
                   [fetched |-> TRUE], 2)

(***************************************************************************)
(* comprehensive_analysis                                                  *)
(***************************************************************************)
AnalysisHandlers ==
  {"sales_trend", "sales_prediction", "product_recommendations",
   "customer_analysis", "time_analysis"}

ComprehensiveMessage == "Gagal mengambil analisis komprehensif"

\* response[0]: the first item of a (response, status) tuple; a bare
\* Response is not subscriptable
ResponseItem0(response) ==
  IF response.tuple THEN [response |-> response.body] ELSE [exc |-> "TypeError"]

\* response[0].get_json()['data']
DataOf(response) ==
  LET item == ResponseItem0(response)
  IN  IF IsExc(item) THEN item
      ELSE IF "data" \in DOMAIN item.response
      THEN [data |-> item.response.data]
      ELSE [exc |-> "KeyError"]

\* the five handlers run first, on the arguments of this request, each with
\* a connection of its own; then the five payloads are extracted in order,
\* and the first extraction that raises ends in the except clause
ComprehensiveAnalysis(a, d) ==
  LET trend_response == SalesTrend(a, d)
      prediction_response == SalesPrediction(a, d)
      product_response == ProductRecommendations(a, d)
      customer_response == CustomerAnalysis(a, d)
      time_response == TimeAnalysis(d)
      run == [sales_trend |-> trend_response,
              sales_prediction |-> prediction_response,
              product_recommendations |-> product_response,
              customer_analysis |-> customer_response,
              time_analysis |-> time_response]
      trend_data == DataOf(trend_response.ret)
      prediction_data == DataOf(prediction_response.ret)
      product_data == DataOf(product_response.ret)
      customer_data == DataOf(customer_response.ret)
      time_data == DataOf(time_response.ret)
      extracted == <<trend_data, prediction_data, product_data, customer_data,
                     time_data>>
      raised == {i \in 1..5 : IsExc(extracted[i])}
      first == CHOOSE i \in raised : \A j \in raised : i <= j
  IN  [ret |->
         IF raised = {}
         THEN [tuple |-> FALSE, status |-> 200,
               body |-> [success |-> TRUE,
                         data |-> [sales_trend |-> trend_data.data,
                                   sales_prediction |-> prediction_data.data,
                                   product_recommendations |-> product_data.data,
                                   customer_analysis |-> customer_data.data,
                                   time_analysis |-> time_data.data,
                                   generated_at |-> Now],
                         message |-> "Analisis komprehensif berhasil diambil"]]
         ELSE [tuple |-> TRUE, status |-> 500,
               body |-> [success |-> FALSE,
                         message |-> <<ComprehensiveMessage, extracted[first].exc>>]],
       conn |-> IF \E h \in AnalysisHandlers : run[h].conn = "open" THEN "open"
                ELSE IF \E h \in AnalysisHandlers : run[h].conn = "closed"
                THEN "closed"
                ELSE "none",
       attempts |-> trend_response.attempts + prediction_response.attempts
                      + product_response.attempts + customer_response.attempts
                      + time_response.attempts,
       queries |-> trend_response.queries + prediction_response.queries
                     + product_response.queries + customer_response.queries
                     + time_response.queries,
       locals |-> [fetched |-> FALSE,
                   responses |-> [h \in AnalysisHandlers |-> run[h].ret],
                   attempts |-> [h \in AnalysisHandlers |-> run[h].attempts],
                   queries |-> [h \in AnalysisHandlers |-> run[h].queries]]]

(***************************************************************************)
(* The inputs of a request.                                                *)
(***************************************************************************)
RECURSIVE TablesUpTo(_, _)
\* every table of at most k rows drawn from Dom
TablesUpTo(Dom, k) ==
  IF k = 0 THEN {{}}
  ELSE LET P == TablesUpTo(Dom, k - 1)
       IN  P \cup {t \cup {o} : t \in P, o \in Dom}

Order(t, total, status) ==
  [created_at |-> t, total_pesanan |-> total, status_pesanan |-> status]

\* a data source that cannot be reached, or that fails at the f-th execute,
\* is never read, and neither is the data source of a request whose
\* arguments do not parse: its content is left empty
Unread(nq) ==
  {[connect |-> FALSE, failAt |-> 0, pesanan |-> {}]}
    \cup {[connect |-> TRUE, failAt |-> f, pesanan |-> {}] : f \in 1..nq}

\* a data source that answers every query from the table t
Answering(t) == [connect |-> TRUE, failAt |-> 0, pesanan |-> t]

TrendTotals == {80, 90, 100, 110, 120}

TrendOrders ==
  {Order(t, Some(v), "selesai") : t \in 0..Now, v \in TrendTotals}
    \cup {Order(t, Some(100), "dibatalkan") : t \in 0..Now}

PredictionTotals == {None, Some(1), Some(2), Some(3)}

PredictionOrders ==
  {Order(t, v, "selesai") : t \in 0..Now, v \in PredictionTotals}
    \cup {Order(t, Some(1), "dibatalkan") : t \in 0..Now}

PredictionArgs ==
  {[days_ahead |-> x, lookback_days |-> y] :
     x \in {Absent, IntArg(-1), IntArg(2), TextArg},
     y \in {Absent, IntArg(1), IntArg(2), TextArg}}

RECURSIVE SeqsUpTo(_, _)
\* every sequence of at most k elements of Dom
SeqsUpTo(Dom, k) ==
  IF k = 0 THEN {<<>>}
  ELSE LET P == SeqsUpTo(Dom, k - 1)
       IN  P \cup {Append(q, x) : q \in P, x \in Dom}

\* NULL sorts last under ORDER BY ... DESC
DescOrdered(x, y) == y = None \/ (x # None /\ x[1] >= y[1])

Min(x, y) == IF x < y THEN x ELSE y

\* the order counts a customer row may carry; COUNT(*) of a group is at
\* least 1, 0 is kept because the code guards against it
OrderCounts == {0, 1, 3, 6, 7, 12, 13}

RevenuesOf(n) ==
  IF n = 0 THEN {Some(0), None}
  ELSE {None, Some(100000 * n), Some(PremiumValue * n), Some(PremiumValue * n + 1),
        Some(VipValue * n), Some(VipValue * n + 1)}

CustomerRows ==
  UNION {{[total_pesanan |-> n, total_pendapatan |-> r] : r \in RevenuesOf(n)} :
           n \in OrderCounts}

\* the rows of the customer query: one per user_id, highest revenue first
CustomerResults(limit) ==
  {[i \in 1..Len(q) |->
      [user_id |-> i, total_pesanan |-> q[i].total_pesanan,
       total_pendapatan |-> q[i].total_pendapatan]] :
     q \in {x \in SeqsUpTo(CustomerRows, Min(limit, MaxRows)) :
              \A i \in 1..(Len(x) - 1) :
                 DescOrdered(x[i].total_pendapatan, x[i + 1].total_pendapatan)}}

UserRow == [name |-> "nama", email |-> "email"]

\* the customer query's rows c, the users row of each (or None), and the
\* execute that raises (0: none)
CustomerDb(c, u, f) == [connect |-> TRUE, failAt |-> f, customers |-> c, users |-> u]

CustomerUnreachable ==
  [connect |-> FALSE, failAt |-> 0, customers |-> <<>>, users |-> <<>>]

LimitArgs == {[limit |-> x] : x \in {Absent, IntArg(1), TextArg}}

\* the LIMIT the query runs with; a request whose limit does not parse never
\* runs it
QueryLimit(a) == IF ArgParses(a.limit) THEN ArgInt(a.limit, DefaultLimit) ELSE 0

ProductItems ==
  {[total_terjual |-> t, total_pendapatan |-> r] :
     t \in {None, Some(0), Some(30), Some(60)}, r \in {None, Some(1000)}}

\* the row of produk an item's id selects, if there is one
ProdukRows ==
  {None} \cup
  {Some([id |-> 1, nama_produk |-> "produk", stok_dus |-> x, stok_pack |-> y,
         stok_satuan |-> z, is_active |-> b]) :
     x \in {None, Some(6), Some(7)}, y \in {None, Some(0)},
     z \in {Some(0), Some(7)}, b \in BOOLEAN}

\* the rows of the top-products query: highest quantity first
ProductResults(limit) ==
  {[i \in 1..Len(q) |->
      [produk_id |-> i, total_terjual |-> q[i].total_terjual,
       total_pendapatan |-> q[i].total_pendapatan]] :
     q \in {x \in SeqsUpTo(ProductItems, Min(limit, MaxRows)) :
              \A i \in 1..(Len(x) - 1) :
                 DescOrdered(x[i].total_terjual, x[i + 1].total_terjual)}}

\* the top-products rows c, the produk row of each (or None), and the
\* execute that raises (0: none)
ProductDb(c, u, f) == [connect |-> TRUE, failAt |-> f, top_products |-> c, produk |-> u]

ProductUnreachable ==
  [connect |-> FALSE, failAt |-> 0, top_products |-> <<>>, produk |-> <<>>]

HourlyRows ==
  {[hour |-> h, jumlah_pesanan |-> 1, total_pendapatan |-> r] :
     h \in {9, 14}, r \in {None, Some(100), Some(200)}}

WeekdayRows ==
  {[day_of_week |-> w[1], day_name |-> w[2], jumlah_pesanan |-> 1,
    total_pendapatan |-> r] :
     w \in {<<1, "Sunday">>, <<2, "Monday">>}, r \in {None, Some(100), Some(200)}}

\* ORDER BY total_pendapatan DESC
RevenueOrdered(q) ==
  \A i \in 1..(Len(q) - 1) :
     DescOrdered(q[i].total_pendapatan, q[i + 1].total_pendapatan)

\* GROUP BY HOUR(created_at): one row per hour, highest revenue first
HourlyGrouped(q) ==
  /\ RevenueOrdered(q)
  /\ \A i, j \in 1..Len(q) : i # j => q[i].hour # q[j].hour

\* GROUP BY DAYOFWEEK(created_at): one row per day, highest revenue first
DailyGrouped(q) ==
  /\ RevenueOrdered(q)
  /\ \A i, j \in 1..Len(q) : i # j => q[i].day_of_week # q[j].day_of_week

RECURSIVE Revenue(_)
Revenue(q) ==
  IF q = <<>> THEN 0 ELSE OrZero(Head(q).total_pendapatan) + Revenue(Tail(q))

\* both queries group the same orders: the same revenue, and rows in one
\* exactly when there are rows in the other
TimeDbs ==
  {[connect |-> TRUE, failAt |-> f, hourly_sales |-> h, daily_sales |-> w] :
     f \in 0..2,
     h \in {q \in SeqsUpTo(HourlyRows, MaxRows) : HourlyGrouped(q)},
     w \in {q \in SeqsUpTo(WeekdayRows, MaxRows) : DailyGrouped(q)}}
  \cup {[connect |-> FALSE, failAt |-> 0, hourly_sales |-> <<>>, daily_sales |-> <<>>]}

TrendArgs == {[days |-> x] : x \in {Absent, IntArg(1), IntArg(2), TextArg}}

\* the comprehensive request carries the arguments of all five handlers;
\* product_recommendations and customer_analysis read the same limit
ComprehensiveArgs ==
  {[days |-> x, days_ahead |-> Absent, lookback_days |-> y, limit |-> z] :
     x \in {Absent, TextArg}, y \in {Absent, IntArg(1)},
     z \in {Absent, IntArg(1), TextArg}}

ComprehensiveTotals == {None, Some(100)}

ComprehensiveOrders ==
  {Order(t, v, s) : t \in 0..Now, v \in ComprehensiveTotals,
                    s \in {"selesai", "dibatalkan"}}

\* one data source behind the five handlers: a pesanan table of at most one
\* order, placed by a user (user_id not NULL) or not, whose users row is
\* user, with a line item sold (item, its produk row produk) or without.
\* Every fixed query window (30 and 90 days) holds the order; each result
\* set is what its query selects from that table.
ShopDb(connect, f, orders, placed, user, item, produk) ==
  LET counted == {o \in orders : Counted(o)}
      total == SqlSum(counted)
      sold == counted # {} /\ item # None
  IN  [connect |-> connect, failAt |-> f, pesanan |-> orders,
       top_products |->
         IF sold
         THEN <<[produk_id |-> 1, total_terjual |-> item[1].total_terjual,
                 total_pendapatan |-> item[1].total_pendapatan]>>
         ELSE <<>>,
       produk |-> IF sold THEN <<produk>> ELSE <<>>,
       customers |->
         IF counted # {} /\ placed
         THEN <<[user_id |-> 1, total_pesanan |-> Cardinality(counted),
                 total_pendapatan |-> total]>>
         ELSE <<>>,
       users |-> IF counted # {} /\ placed THEN <<user>> ELSE <<>>,
       hourly_sales |->
         IF counted # {}
         THEN <<[hour |-> 9, jumlah_pesanan |-> Cardinality(counted),
                 total_pendapatan |-> total]>>
         ELSE <<>>,
       daily_sales |->
         IF counted # {}
         THEN <<[day_of_week |-> 1, day_name |-> "Sunday",
                 jumlah_pesanan |-> Cardinality(counted),
                 total_pendapatan |-> total]>>
         ELSE <<>>]

\* the line item of the order, if it has one
ShopItems ==
  {None, Some([total_terjual |-> Some(30), total_pendapatan |-> Some(1000)]),
   Some([total_terjual |-> Some(30), total_pendapatan |-> None])}

ShopProduk ==
  {None,
   Some([id |-> 1, nama_produk |-> "produk", stok_dus |-> Some(6),
         stok_pack |-> Some(0), stok_satuan |-> Some(7), is_active |-> TRUE])}

\* a data source nobody reads: unreachable, or raising at every first execute
ShopUnread ==
  {ShopDb(FALSE, 0, {}, FALSE, None, None, None),
   ShopDb(TRUE, 1, {}, FALSE, None, None, None)}

(***************************************************************************)
(* The requests.                                                           *)
(***************************************************************************)
Idle ==
  /\ phase = "idle"
  /\ handler = "none"
  /\ args = [none |-> TRUE]
  /\ db = [none |-> TRUE]
  /\ ret = [none |-> TRUE]
  /\ conn = "none"
  /\ attempts = 0
  /\ queries = 0
  /\ locals = [fetched |-> FALSE]

Init == Idle

\* one request handled by h on arguments a and data source d, leaving r
Handle(h, a, d, r) ==
  /\ phase' = "done"
  /\ handler' = h
  /\ args' = a
  /\ db' = d
  /\ ret' = r.ret
  /\ conn' = r.conn
  /\ attempts' = r.attempts
  /\ queries' = r.queries
  /\ locals' = r.locals

SalesTrendRequest ==
  /\ phase = "idle"
  /\ \E a \in TrendArgs :
       \/ \E d \in Unread(2) : Handle("sales_trend", a, d, SalesTrend(a, d))
       \/ /\ ArgParses(a.days)
          /\ \E t \in TablesUpTo(TrendOrders, MaxOrders) :
               Handle("sales_trend", a, Answering(t), SalesTrend(a, Answering(t)))

SalesPredictionRequest ==
  /\ phase = "idle"
  /\ \E a \in PredictionArgs :
       \/ \E d \in Unread(1) :
            Handle("sales_prediction", a, d, SalesPrediction(a, d))
       \/ /\ ArgParses(a.days_ahead) /\ ArgParses(a.lookback_days)
          /\ \E t \in TablesUpTo(PredictionOrders, MaxOrders) :
               Handle("sales_prediction", a, Answering(t),
                      SalesPrediction(a, Answering(t)))

CustomerAnalysisRequest ==
  /\ phase = "idle"
  /\ \E a \in LimitArgs :
       \/ Handle("customer_analysis", a, CustomerUnreachable,
                 CustomerAnalysis(a, CustomerUnreachable))
       \/ \E c \in CustomerResults(QueryLimit(a)) :
            \E u \in [1..Len(c) -> {None, Some(UserRow)}], f \in 0..(Len(c) + 1) :
              Handle("customer_analysis", a, CustomerDb(c, u, f),
                     CustomerAnalysis(a, CustomerDb(c, u, f)))

ProductRecommendationsRequest ==
  /\ phase = "idle"
  /\ \E a \in LimitArgs :
       \/ Handle("product_recommendations", a, ProductUnreachable,
                 ProductRecommendations(a, ProductUnreachable))
       \/ \E c \in ProductResults(QueryLimit(a)) :
            \E u \in [1..Len(c) -> ProdukRows], f \in 0..(Len(c) + 1) :
              Handle("product_recommendations", a, ProductDb(c, u, f),
                     ProductRecommendations(a, ProductDb(c, u, f)))

TimeAnalysisRequest ==
  /\ phase = "idle"
  /\ \E d \in {x \in TimeDbs :
                  /\ (x.hourly_sales = <<>>) = (x.daily_sales = <<>>)
                  /\ Revenue(x.hourly_sales) = Revenue(x.daily_sales)} :
       Handle("time_analysis", [none |-> TRUE], d, TimeAnalysis(d))

ComprehensiveAnalysisRequest ==
  /\ phase = "idle"
  /\ \E a \in ComprehensiveArgs :
       \/ \E d \in ShopUnread :
            Handle("comprehensive_analysis", a, d, ComprehensiveAnalysis(a, d))
       \/ \E orders \in TablesUpTo(ComprehensiveOrders, 1), placed \in BOOLEAN,
             user \in {None, Some(UserRow)}, item \in ShopItems,
             produk \in ShopProduk :
            LET d == ShopDb(TRUE, 0, orders, placed, user, item, produk)
            IN  Handle("comprehensive_analysis", a, d, ComprehensiveAnalysis(a, d))

\* the response is sent and everything the request built is discarded
EndRequest ==
  /\ phase = "done"
  /\ phase' = "idle"
  /\ handler' = "none"
  /\ args' = [none |-> TRUE]
  /\ db' = [none |-> TRUE]
  /\ ret' = [none |-> TRUE]
  /\ conn' = "none"
  /\ attempts' = 0
  /\ queries' = 0
  /\ locals' = [fetched |-> FALSE]

Next ==
  \/ SalesTrendRequest
  \/ SalesPredictionRequest
  \/ ProductRecommendationsRequest
  \/ CustomerAnalysisRequest
  \/ TimeAnalysisRequest
  \/ ComprehensiveAnalysisRequest
  \/ EndRequest

Spec == Init /\ [][Next]_vars

(***************************************************************************)
(* Properties.                                                             *)
(***************************************************************************)
Done(h) == phase = "done" /\ handler = h

Succeeded(h) == Done(h) /\ ret.body.success

\* one of the five analysis handlers returned a failure
Failed == phase = "done" /\ handler \in AnalysisHandlers /\ ~ret.body.success

\* C1: every customer customer_analysis reports, with n orders and revenue r
\* (average order value r/n, 0 when n = 0; frequency n/3), is 'vip' exactly
\* when r/n > 500000 and n/3 > 4, otherwise 'premium' exactly when
\* r/n > 300000 or n/3 > 2, otherwise 'regular'.
C1_Segmentation ==
  Succeeded("customer_analysis") =>
    \A i \in 1..Len(ret.body.data) :
      LET n == ret.body.data[i].total_pesanan
          r == ret.body.data[i].total_pendapatan
          vip == n > 0 /\ r > 500000 * n /\ n > 4 * 3
          premium == (n > 0 /\ r > 300000 * n) \/ n > 2 * 3
      IN  ret.body.data[i].segment =
            IF vip THEN "vip" ELSE IF premium THEN "premium" ELSE "regular"

\* a customer who is premium through the order value alone
C1_Witness ==
  /\ Succeeded("customer_analysis")
  /\ \E i \in 1..Len(ret.body.data) :
       /\ ret.body.data[i].segment = "premium"
       /\ ret.body.data[i].total_pesanan = 1
       /\ ret.body.data[i].total_pendapatan = 300001

\* C2: the two sums of sales_trend are taken over adjacent windows of equal
\* length days: the previous window ends where the current one starts, both
\* span days days, and every counted order of the last 2*days days lies in
\* exactly one of them.
C2_AdjacentWindows ==
  (Succeeded("sales_trend") /\ locals.days >= 1) =>
    LET p == locals.periods
        span == Timedelta(locals.days)
    IN  /\ p.previous_end_date = p.start_date
        /\ p.end_date - p.start_date = span
        /\ p.previous_end_date - p.previous_start_date = span
        /\ \A o \in db.pesanan :
             (Counted(o) /\ Between(o.created_at, p.end_date - 2 * span, p.end_date))
               => (Between(o.created_at, p.start_date, p.end_date)
                     # Between(o.created_at, p.previous_start_date,
                               p.previous_end_date))

\* C3: the trend label of sales_trend follows the band of percentage_change:
\* > 20 naik_signifikan, < -20 turun_signifikan, (10, 20] naik,
\* [-20, -10) turun, [-10, 10] stabil; and the recommendation is the text
\* of that band.
C3_TrendBands ==
  Succeeded("sales_trend") =>
    LET pc == locals.percentage_change
        gt(k) == pc.num > k * pc.den
        lt(k) == pc.num < k * pc.den
        band == IF gt(20) THEN "naik_signifikan"
                ELSE IF lt(-20) THEN "turun_signifikan"
                ELSE IF gt(10) THEN "naik"
                ELSE IF lt(-10) THEN "turun"
                ELSE "stabil"
        text == [naik_signifikan |->
                   "Penjualan meningkat signifikan. Pertimbangkan untuk meningkatkan stok dan promosi.",
                 turun_signifikan |->
                   "Penjualan menurun signifikan. Evaluasi strategi pemasaran dan cek kompetitor.",
                 naik |->
                   "Penjualan menunjukkan tren positif. Pertahankan strategi yang ada.",
                 turun |->
                   "Penjualan sedikit menurun. Monitor lebih lanjut dan pertimbangkan promosi.",
                 stabil |-> "Penjualan stabil. Pertahankan performa yang ada."]
    IN  /\ ret.body.data.trend = band
        /\ ret.body.data.recommendation = text[band]
        /\ \A x, y \in DOMAIN text : x # y => text[x] # text[y]

\* a change of exactly 20 percent: the upper end of the band 'naik'
C3_Witness ==
  /\ Succeeded("sales_trend")
  /\ ret.body.data.previous_period.total = 100
  /\ ret.body.data.current_period.total = 120
  /\ ret.body.data.trend = "naik"

\* C4: the daily series sales_prediction averages has lookback_days entries,
\* days without counted orders counting as zero: when a counted order lies
\* in the lookback window, data_points = lookback_days and average_daily is
\* the window's revenue divided by lookback_days.
C4_DenseSeries ==
  LET window == {o \in db.pesanan :
                   Counted(o) /\ o.created_at >= Now - Timedelta(locals.lookback_days)}
  IN  (Succeeded("sales_prediction") /\ window # {}) =>
        /\ ret.body.data.data_points = locals.lookback_days
        /\ ret.body.data.average_daily =
             Round(Rat(SumNonNull(window), locals.lookback_days), 100)

RECURSIVE SumOfSquares(_)
SumOfSquares(rows) ==
  IF rows = <<>> THEN 0
  ELSE OrZero(Head(rows).total) * OrZero(Head(rows).total) + SumOfSquares(Tail(rows))

\* 100^2 * (population variance) and mean^2 of the daily totals, both as a
\* count of 1/n^2: CV^2 is their quotient
CvSquaredParts(rows) ==
  LET n == Len(rows)
      S == SumTotals(rows)
  IN  [var |-> 10000 * (n * SumOfSquares(rows) - S * S), mean |-> S * S]

\* C5: with CV = 100 * (population standard deviation) / mean of the daily
\* totals (mean > 0), the confidence of sales_prediction is 'high' exactly
\* when CV < 20, 'low' exactly when CV > 50, and 'medium' otherwise.
C5_ConfidenceByCV ==
  (/\ Succeeded("sales_prediction")
   /\ locals.daily_sales # <<>>
   /\ SumTotals(locals.daily_sales) > 0) =>
    LET c == CvSquaredParts(locals.daily_sales)
    IN  ret.body.data.confidence =
          IF c.var < 400 * c.mean THEN Str("high")
          ELSE IF c.var > 2500 * c.mean THEN Str("low")
          ELSE Str("medium")

\* a series whose CV is exactly 20: 'medium', not 'high'
C5_Witness ==
  /\ Succeeded("sales_prediction")
  /\ Len(locals.daily_sales) = 2
  /\ CvSquaredParts(locals.daily_sales).mean > 0
  /\ CvSquaredParts(locals.daily_sales).var
       = 400 * CvSquaredParts(locals.daily_sales).mean
  /\ ret.body.data.confidence = Str("medium")

\* the daily sales query of sales_prediction ran and returned no row
NoDailySales ==
  /\ Done("sales_prediction")
  /\ locals.fetched
  /\ locals.daily_sales = <<>>

\* C6 as stated: with no counted order in the lookback window
\* sales_prediction returns a success whose prediction is 0 and whose
\* confidence is 0.
C6_ZeroConfidence ==
  NoDailySales =>
    /\ ret.body.success
    /\ ret.body.data.prediction = 0
    /\ ret.body.data.confidence = [int |-> 0]

\* C6 as amended: with no counted order in the lookback window
\* sales_prediction returns, for any horizon, a success (HTTP 200) whose
\* prediction is 0, whose confidence is the label 'low' and whose method is
\* 'insufficient_data'.
C6_InsufficientData ==
  (/\ Done("sales_prediction")
   /\ ArgParses(args.days_ahead) /\ ArgParses(args.lookback_days)
   /\ db.connect /\ db.failAt = 0
   /\ DailySales(db.pesanan,
                 Now - Timedelta(ArgInt(args.lookback_days, DefaultLookbackDays)))
        = <<>>) =>
    /\ ret.status = 200
    /\ ret.body.success
    /\ ret.body.data.prediction = 0
    /\ ret.body.data.confidence = Str("low")
    /\ ret.body.data.method = "insufficient_data"

\* orders exist, none of them counted in the window, and a negative horizon
C6_Witness ==
  /\ NoDailySales
  /\ db.pesanan # {}
  /\ locals.days_ahead = -1
  /\ ret.body.success

\* C7: for every non-empty set of daily sales rows and every integer
\* days_ahead the request carries, the prediction returned is >= 0.
C7_PredictionNonNegative ==
  (Succeeded("sales_prediction") /\ locals.daily_sales # <<>>) =>
    ret.body.data.prediction >= 0

\* C8: on every path by which a handler returns, the connection acquired
\* for the request has been closed.
C8_ConnectionReleased == phase = "done" => conn # "open"

\* C9: a request whose arguments parse fails only when the data source is
\* unreachable (no connection, or a query raising a database error); a NULL
\* amount in a result row or an empty result never makes it fail.
C9_OnlyUnreachableFails ==
  (Failed /\ ret.body.error # "ValueError") =>
    (~db.connect \/ ret.body.error = "Error")

\* C10: no ratio divides by zero, and each has its fallback: percentage_change
\* is 0 and the trend 'stabil' when previous_sales = 0; avg_order_value is 0
\* when the order count is 0; the coefficient of variation is 0 when
\* average_daily = 0; days_until_stockout is 0 when average_daily_sales = 0;
\* and a sales_trend or sales_prediction request whose arguments parse and
\* whose data source answers never fails.
C10_GuardedRatios ==
  /\ Failed => ret.body.error # "ZeroDivisionError"
  /\ (Succeeded("sales_trend") /\ ret.body.data.previous_period.total = 0) =>
       /\ ret.body.data.percentage_change = 0
       /\ ret.body.data.trend = "stabil"
  /\ Succeeded("customer_analysis") =>
       \A i \in 1..Len(ret.body.data) :
         ret.body.data[i].total_pesanan = 0 =>
           ret.body.data[i].rata_rata_transaksi = 0
  /\ (/\ Succeeded("sales_prediction")
      /\ locals.daily_sales # <<>>
      /\ SumTotals(locals.daily_sales) = 0) =>
       /\ ret.body.data.average_daily = 0
       /\ ret.body.data.coefficient_of_variation_squared.num = 0
  /\ Succeeded("product_recommendations") =>
       \A i \in 1..Len(ret.body.data) :
         ret.body.data[i].total_terjual = 0 =>
           ret.body.data[i].days_until_stockout = 0
  /\ (/\ Failed
      /\ handler \in {"sales_trend", "sales_prediction"}
      /\ db.connect /\ db.failAt = 0) => ret.body.error = "ValueError"

\* no order in the previous period while the current period has sales
C10_Witness ==
  /\ Succeeded("sales_trend")
  /\ ret.body.data.previous_period.total = 0
  /\ ret.body.data.current_period.total > 0
  /\ ret.body.data.percentage_change = 0

\* every argument the request carries parses as an integer
ArgumentsParse ==
  \A k \in DOMAIN args : k = "none" \/ ArgParses(args[k])

\* C11: when get_db_connection fails, a handler has made exactly one
\* connection attempt and no query, holds no connection, and returns at once
\* the failure 'Database connection failed' (success = false, HTTP 500); a
\* request whose arguments do not parse never asks for a connection. Run
\* from comprehensive_analysis, each of the five handlers still makes at most
\* one attempt and no query, and returns a failure with HTTP 500.
C11_SingleAttempt ==
  /\ (phase = "done" /\ handler \in AnalysisHandlers /\ ~db.connect) =>
       /\ attempts = (IF ArgumentsParse THEN 1 ELSE 0)
       /\ queries = 0
       /\ conn = "none"
       /\ ret.tuple
       /\ ret.status = 500
       /\ ~ret.body.success
       /\ ArgumentsParse => ret.body.message = "Database connection failed"
  /\ (Done("comprehensive_analysis") /\ ~db.connect) =>
       /\ \A h \in AnalysisHandlers :
            /\ locals.attempts[h] <= 1
            /\ locals.queries[h] = 0
            /\ locals.responses[h].status = 500
            /\ ~locals.responses[h].body.success
       /\ locals.attempts["time_analysis"] = 1
       /\ queries = 0
       /\ conn = "none"

\* sales_prediction on arguments that parse and a data source that refuses
\* the connection
C11_Witness ==
  /\ Done("sales_prediction")
  /\ ~db.connect
  /\ ArgumentsParse
  /\ attempts = 1
  /\ ret.body.message = "Database connection failed"

\* C12: when the five handlers comprehensive_analysis runs all return a
\* success, comprehensive_analysis returns success = true with the 'data'
\* payload of each under its name.
C12_ComposesPayloads ==
  (/\ Done("comprehensive_analysis")
   /\ \A h \in AnalysisHandlers : locals.responses[h].body.success) =>
    /\ ret.body.success
    /\ \A h \in AnalysisHandlers :
         ret.body.data[h] = locals.responses[h].body.data

====
